---- MODULE Spec2Model ----
(***************************************************************************)
(* Model of full_dashboard.py: a script that loads four CSV files (one of  *)
(* them twice), parses a date column, builds a summary card and three      *)
(* charts while evaluating the layout expression, and then starts a local  *)
(* web server that serves the layout.                                      *)
(*                                                                         *)
(* One run of the interpreter is one behaviour.  pc is the position of the *)
(* interpreter in the module body, top to bottom.                          *)
(***************************************************************************)
EXTENDS Integers, Sequences, FiniteSets, TLC

VARIABLES
    pc,                 \* position in the script
    present,            \* the files that exist in the working directory
    word_count_df,      \* rows [word, total_count], in file order
    daily_sentiment_df, \* rows [date, avg_sentiment], in file order
    user_stats_df,      \* rows [user, total_engagement, total_likes]
    cleaned_tweets_df,  \* the cleaned-tweets table: only its row count is used
    emotions_sample_df, \* row count of the 1000-row prefix (never rendered)
    reads,              \* how many times each file has been read
    builds,             \* how many times each builder has run
    stdout,             \* the lines printed so far
    card,               \* result of create_summary_card
    word_chart,         \* bars of create_word_count_chart, bottom to top
    user_chart,         \* bars of create_user_engagement_chart, bottom to top
    sentiment_chart,    \* points of create_sentiment_line_chart, in trace order
    app_layout,         \* app.layout: <<>> until assigned, then <<tree>>
    started,            \* TRUE once app.run has been entered
    responses,          \* the layouts handed out to requests so far
    served,             \* number of requests served
    crash,              \* "none" or the uncaught exception that ended the run
    caught,             \* <<>> or <<file>>: the FileNotFoundError being handled
    exit_status         \* {} while running, {code} once the process ended

vars == <<pc, present, word_count_df, daily_sentiment_df, user_stats_df,
          cleaned_tweets_df, emotions_sample_df, reads, builds, stdout, card,
          word_chart, user_chart, sentiment_chart, app_layout, started,
          responses, served, crash, caught, exit_status>>

-----------------------------------------------------------------------------
(* Program constants *)

TopWords == 20
TopUsers == 10
EmotionSample == 1000
Decimals == 2

WORD_FILE == "mapreduce_word_count.csv"
SENT_FILE == "mapreduce_daily_sentiment.csv"
USER_FILE == "mapreduce_user_stats.csv"
TWEETS_FILE == "tweets_cleaned.csv"

RequiredFiles == {WORD_FILE, SENT_FILE, USER_FILE, TWEETS_FILE}

-----------------------------------------------------------------------------
(* Bounds of the model *)

MaxExtra == 2       \* rows beyond the head-N cut that a table may have
MaxDates == 2       \* distinct dates in the sentiment table
MaxTweets == 1200   \* largest cleaned-tweets row count
MaxRequests == 2    \* requests served before the model stops counting

-----------------------------------------------------------------------------
(* Input tables.  A table is the sequence of the data rows of a well-formed *)
(* CSV file (header present, columns as the script expects).                *)

Min(a, b) == IF a < b THEN a ELSE b

\* total_count / total_engagement of row i under pattern p
PatternValue(p, i) ==
    CASE p = "descending" -> 100 - i
      [] p = "ascending"  -> i
      [] p = "zigzag"     -> (i * 7) % 5
      [] p = "peak_late"  -> IF i > TopWords THEN 50 ELSE IF i > TopUsers THEN 40 ELSE i % 3

Patterns == {"descending", "ascending", "zigzag", "peak_late"}

\* total_likes of row i under pattern p
LikesValue(p, i) ==
    CASE p = "zigzag"    -> 0
      [] p = "peak_late" -> i % 2
      [] OTHER           -> (i * 3) % 4

WordLens == {0, 2} \cup (TopWords .. TopWords + MaxExtra)
UserLens == {0, 2} \cup (TopUsers .. TopUsers + MaxExtra)

WordTable(n, p) == [i \in 1..n |-> [word |-> i, total_count |-> PatternValue(p, i)]]

UserTable(n, p) ==
    [i \in 1..n |-> [user |-> i,
                     total_engagement |-> PatternValue(p, i),
                     total_likes |-> LikesValue(p, i)]]

WordTables == {WordTable(n, p) : n \in WordLens, p \in Patterns}
UserTables == {UserTable(n, p) : n \in UserLens, p \in Patterns \ {"ascending"}}

\* date texts as they stand in the CSV: <<year, month, day>>
DatePool == << <<2024, 1, 1>>, <<2023, 12, 31>>, <<2024, 3, 1>>, <<2024, 2, 29>>,
               <<2023, 2, 28>> >>

DateTexts == {DatePool[i] : i \in 1..Min(MaxDates, Len(DatePool))}

SentimentOf(text) == ((text[2] * 7 + text[3]) % 9) - 4

InjectiveSeqs(S) ==
    UNION {{s \in [1..n -> S] : \A i, j \in 1..n : i # j => s[i] # s[j]}
           : n \in 0..Cardinality(S)}

\* one row per date, in any row order
SentimentTables ==
    {[i \in 1..Len(s) |-> [date |-> s[i], avg_sentiment |-> SentimentOf(s[i])]]
     : s \in InjectiveSeqs(DateTexts)}

\* 8 makes exact rounding ties, MaxTweets inexact ones and a cut at EmotionSample
TweetCounts == {0, 8, MaxTweets}

-----------------------------------------------------------------------------
(* Library operations the script calls, by what they do *)

\* DataFrame.head(n): the first n rows, or all of them when there are fewer
head(rows, n) == SubSeq(rows, 1, Min(n, Len(rows)))

RECURSIVE InsertAsc(_, _, _)
InsertAsc(sorted, row, by) ==
    IF sorted = <<>> THEN <<row>>
    ELSE IF row[by] < sorted[1][by]
         THEN <<row>> \o sorted
         ELSE <<sorted[1]>> \o InsertAsc(Tail(sorted), row, by)

RECURSIVE SortFrom(_, _, _)
SortFrom(rows, k, by) ==
    IF k = 0 THEN <<>>
    ELSE InsertAsc(SortFrom(rows, k - 1, by), rows[Len(rows) - k + 1], by)

\* DataFrame.sort_values(by=..., ascending=True).  Rows with equal keys keep
\* some order the sort picks; the model takes the one of an insertion sort.
sort_values(rows, by) == SortFrom(rows, Len(rows), by)

\* pd.to_datetime on one date text: the day number of the civil date
to_datetime(text) ==
    LET y   == IF text[2] <= 2 THEN text[1] - 1 ELSE text[1]
        era == y \div 400
        yoe == y - era * 400
        mp  == IF text[2] > 2 THEN text[2] - 3 ELSE text[2] + 9
        doy == ((153 * mp + 2) \div 5) + text[3] - 1
        doe == yoe * 365 + (yoe \div 4) - (yoe \div 100) + doy
    IN  era * 146097 + doe - 719468

ParseDates(rows) ==
    [i \in 1..Len(rows) |-> [rows[i] EXCEPT !.date = to_datetime(rows[i].date)]]

RECURSIVE SumColumn(_, _, _)
SumColumn(rows, col, k) ==
    IF k = 0 THEN 0 ELSE rows[k][col] + SumColumn(rows, col, k - 1)

RECURSIVE Pow10(_)
Pow10(k) == IF k = 0 THEN 1 ELSE 10 * Pow10(k - 1)

RECURSIVE Gcd(_, _)
Gcd(a, b) == IF b = 0 THEN a ELSE Gcd(b, a % b)

RECURSIVE IsPowerOfTwo(_)
IsPowerOfTwo(n) == IF n = 1 THEN TRUE ELSE IF n % 2 = 1 THEN FALSE ELSE IsPowerOfTwo(n \div 2)

\* round(s / n, ndigits) for integers s >= 0, n > 0, as the set of results
\* a build can give, in units of 10^-ndigits.  The quotient is a float: away
\* from a tie the nearest value is the result; at a tie that a float holds
\* exactly (a dyadic quotient) rounding is half-to-even; at a tie that a
\* float cannot hold exactly the result depends on the representation error
\* and on which rounding routine is used, so both neighbours can come out.
round(s, n, ndigits) ==
    LET scaled == s * Pow10(ndigits)
        q == scaled \div n
        r == scaled % n
    IN  IF 2 * r < n THEN {q}
        ELSE IF 2 * r > n THEN {q + 1}
        ELSE IF IsPowerOfTwo(n \div Gcd(s, n))
             THEN {IF q % 2 = 0 THEN q ELSE q + 1}
             ELSE {q, q + 1}

-----------------------------------------------------------------------------
(* The script's functions *)

\* variants of the builders with a slip in them, used to test the properties
create_word_count_chart_unsorted(df) == head(df, TopWords)

create_word_count_chart_top_by_value(df) ==
    LET all == sort_values(df, "total_count")
    IN  SubSeq(all, Len(all) - Min(TopWords, Len(all)) + 1, Len(all))

create_user_engagement_chart_by_likes(df) == sort_values(head(df, TopUsers), "total_likes")

TotalLikes_of_engagement(users) == SumColumn(users, "total_engagement", Len(users))

DivisionRaises_always(users, tweets) == tweets = 0

\* bars of the chart, bottom to top: px.bar with orientation 'h' draws the
\* rows of its frame in order, the first row lowest on the category axis
create_word_count_chart(df) == sort_values(head(df, TopWords), "total_count")

create_user_engagement_chart(df) == sort_values(head(df, TopUsers), "total_engagement")

\* points of the line trace, in trace order: px.line takes the rows as they
\* come and does not sort them
create_sentiment_line_chart(df) ==
    [i \in 1..Len(df) |-> [x |-> df[i].date, y |-> df[i].avg_sentiment]]

\* user_stats_df['total_likes'].sum()
TotalLikes(users) == SumColumn(users, "total_likes", Len(users))

\* The sum of a column read from a file with data rows is a numpy integer,
\* and numpy division by zero gives inf or nan with a warning.  The column of
\* a file without data rows has dtype object, whose sum is the Python int 0,
\* and Python division by zero raises ZeroDivisionError.
DivisionRaises(users, tweets) == tweets = 0 /\ Len(users) = 0

AvgLikes(users, tweets) ==
    IF tweets > 0
    THEN {[kind |-> "finite", hundredths |-> h] : h \in round(TotalLikes(users), tweets, Decimals)}
    ELSE IF TotalLikes(users) > 0
         THEN {[kind |-> "inf", hundredths |-> 0]}
         ELSE {[kind |-> "nan", hundredths |-> 0]}

\* the cards create_summary_card can return (one, except at a rounding tie)
create_summary_card(users, tweets) ==
    {[total_tweets |-> tweets, unique_users |-> Len(users), avg_likes |-> a]
     : a \in AvgLikes(users, tweets)}

-----------------------------------------------------------------------------
(* The run of the script *)

Builders == {"summary_card", "word_count_chart", "user_engagement_chart",
             "sentiment_line_chart"}

Init ==
    /\ pc = "start"
    /\ present \in SUBSET RequiredFiles
    /\ word_count_df = <<>>
    /\ daily_sentiment_df = <<>>
    /\ user_stats_df = <<>>
    /\ cleaned_tweets_df = 0
    /\ emotions_sample_df = 0
    /\ reads = [f \in RequiredFiles |-> 0]
    /\ builds = [b \in Builders |-> 0]
    /\ stdout = <<>>
    /\ card = <<>>
    /\ word_chart = <<>>
    /\ user_chart = <<>>
    /\ sentiment_chart = <<>>
    /\ app_layout = <<>>
    /\ started = FALSE
    /\ responses = {}
    /\ served = 0
    /\ crash = "none"
    /\ caught = <<>>
    /\ exit_status = {}

\* pd.read_csv(file) on a missing file: FileNotFoundError, taken by the handler
RaiseFileNotFound(file) ==
    /\ pc' = "except"
    /\ caught' = <<file>>
    /\ UNCHANGED <<word_count_df, daily_sentiment_df, user_stats_df,
                   cleaned_tweets_df, emotions_sample_df, reads>>

\* an uncaught exception: traceback, exit status 1
Uncaught(exception) ==
    /\ pc' = "exited"
    /\ crash' = exception
    /\ exit_status' = {1}

PrintLoading ==
    /\ pc = "start"
    /\ stdout' = Append(stdout, [line |-> "Loading data", file |-> "none"])
    /\ pc' = "read_word_count"
    /\ UNCHANGED <<present, word_count_df, daily_sentiment_df, user_stats_df,
                   cleaned_tweets_df, emotions_sample_df, reads, builds, card,
                   word_chart, user_chart, sentiment_chart, app_layout, started,
                   responses, served, crash, caught, exit_status>>

ReadWordCount ==
    /\ pc = "read_word_count"
    /\ IF WORD_FILE \in present
       THEN /\ \E t \in WordTables : word_count_df' = t
            /\ reads' = [reads EXCEPT ![WORD_FILE] = @ + 1]
            /\ pc' = "read_daily_sentiment"
            /\ UNCHANGED <<daily_sentiment_df, user_stats_df, cleaned_tweets_df,
                           emotions_sample_df, caught>>
       ELSE RaiseFileNotFound(WORD_FILE)
    /\ UNCHANGED <<present, builds, stdout, card, word_chart, user_chart,
                   sentiment_chart, app_layout, started, responses, served,
                   crash, exit_status>>

ReadDailySentiment ==
    /\ pc = "read_daily_sentiment"
    /\ IF SENT_FILE \in present
       THEN /\ \E t \in SentimentTables : daily_sentiment_df' = t
            /\ reads' = [reads EXCEPT ![SENT_FILE] = @ + 1]
            /\ pc' = "read_user_stats"
            /\ UNCHANGED <<word_count_df, user_stats_df, cleaned_tweets_df,
                           emotions_sample_df, caught>>
       ELSE RaiseFileNotFound(SENT_FILE)
    /\ UNCHANGED <<present, builds, stdout, card, word_chart, user_chart,
                   sentiment_chart, app_layout, started, responses, served,
                   crash, exit_status>>

ReadUserStats ==
    /\ pc = "read_user_stats"
    /\ IF USER_FILE \in present
       THEN /\ \E t \in UserTables : user_stats_df' = t
            /\ reads' = [reads EXCEPT ![USER_FILE] = @ + 1]
            /\ pc' = "read_cleaned_tweets"
            /\ UNCHANGED <<word_count_df, daily_sentiment_df, cleaned_tweets_df,
                           emotions_sample_df, caught>>
       ELSE RaiseFileNotFound(USER_FILE)
    /\ UNCHANGED <<present, builds, stdout, card, word_chart, user_chart,
                   sentiment_chart, app_layout, started, responses, served,
                   crash, exit_status>>

ReadCleanedTweets ==
    /\ pc = "read_cleaned_tweets"
    /\ IF TWEETS_FILE \in present
       THEN /\ \E n \in TweetCounts : cleaned_tweets_df' = n
            /\ reads' = [reads EXCEPT ![TWEETS_FILE] = @ + 1]
            /\ pc' = "read_emotions_sample"
            /\ UNCHANGED <<word_count_df, daily_sentiment_df, user_stats_df,
                           emotions_sample_df, caught>>
       ELSE RaiseFileNotFound(TWEETS_FILE)
    /\ UNCHANGED <<present, builds, stdout, card, word_chart, user_chart,
                   sentiment_chart, app_layout, started, responses, served,
                   crash, exit_status>>

\* the second read of tweets_cleaned.csv, cut to its first 1000 rows
ReadEmotionsSample ==
    /\ pc = "read_emotions_sample"
    /\ IF TWEETS_FILE \in present
       THEN /\ emotions_sample_df' = Min(cleaned_tweets_df, EmotionSample)
            /\ reads' = [reads EXCEPT ![TWEETS_FILE] = @ + 1]
            /\ pc' = "to_datetime"
            /\ UNCHANGED <<word_count_df, daily_sentiment_df, user_stats_df,
                           cleaned_tweets_df, caught>>
       ELSE RaiseFileNotFound(TWEETS_FILE)
    /\ UNCHANGED <<present, builds, stdout, card, word_chart, user_chart,
                   sentiment_chart, app_layout, started, responses, served,
                   crash, exit_status>>

ParseDateColumn ==
    /\ pc = "to_datetime"
    /\ daily_sentiment_df' = ParseDates(daily_sentiment_df)
    /\ pc' = "dash_init"
    /\ UNCHANGED <<present, word_count_df, user_stats_df, cleaned_tweets_df,
                   emotions_sample_df, reads, builds, stdout, card, word_chart,
                   user_chart, sentiment_chart, app_layout, started, responses,
                   served, crash, caught, exit_status>>

\* the handler with a diagnostic that leaves the exception out
HandleFileNotFound_without_name ==
    /\ pc = "except"
    /\ stdout' = stdout \o << [line |-> "ERROR: A required CSV file was not found", file |-> "none"],
                              [line |-> "Please ensure you have run the R scripts", file |-> "none"] >>
    /\ pc' = "exited"
    /\ exit_status' = {0}
    /\ UNCHANGED <<present, word_count_df, daily_sentiment_df, user_stats_df,
                   cleaned_tweets_df, emotions_sample_df, reads, builds, card,
                   word_chart, user_chart, sentiment_chart, app_layout, started,
                   responses, served, crash, caught>>

\* except FileNotFoundError as e: two prints, then exit() with no argument,
\* which raises SystemExit(None): the interpreter ends with status 0
HandleFileNotFound ==
    /\ pc = "except"
    /\ stdout' = stdout \o << [line |-> "ERROR: A required CSV file was not found", file |-> caught[1]],
                              [line |-> "Please ensure you have run the R scripts", file |-> "none"] >>
    /\ pc' = "exited"
    /\ exit_status' = {0}
    /\ UNCHANGED <<present, word_count_df, daily_sentiment_df, user_stats_df,
                   cleaned_tweets_df, emotions_sample_df, reads, builds, card,
                   word_chart, user_chart, sentiment_chart, app_layout, started,
                   responses, served, crash, caught>>

\* app = dash.Dash(...)
DashInit ==
    /\ pc = "dash_init"
    /\ pc' = "layout_summary_card"
    /\ UNCHANGED <<present, word_count_df, daily_sentiment_df, user_stats_df,
                   cleaned_tweets_df, emotions_sample_df, reads, builds, stdout,
                   card, word_chart, user_chart, sentiment_chart, app_layout,
                   started, responses, served, crash, caught, exit_status>>

\* The layout expression evaluates its children left to right: the summary
\* card, the word-count chart, the engagement chart, the sentiment chart.
LayoutSummaryCard ==
    /\ pc = "layout_summary_card"
    /\ IF DivisionRaises(user_stats_df, cleaned_tweets_df)
       THEN /\ Uncaught("ZeroDivisionError")
            /\ UNCHANGED <<card, builds>>
       ELSE /\ \E c \in create_summary_card(user_stats_df, cleaned_tweets_df) :
                  card' = <<c>>
            /\ builds' = [builds EXCEPT !["summary_card"] = @ + 1]
            /\ pc' = "layout_word_count_chart"
            /\ UNCHANGED <<crash, exit_status>>
    /\ UNCHANGED <<present, word_count_df, daily_sentiment_df, user_stats_df,
                   cleaned_tweets_df, emotions_sample_df, reads, stdout,
                   word_chart, user_chart, sentiment_chart, app_layout, started,
                   responses, served, caught>>

\* the builder step with positional indexing of row 20 in place of head(20)
LayoutWordCountChart_index_past ==
    /\ pc = "layout_word_count_chart"
    /\ IF Len(word_count_df) < TopWords
       THEN /\ Uncaught("IndexError")
            /\ UNCHANGED <<word_chart, builds>>
       ELSE /\ word_chart' = create_word_count_chart(word_count_df)
            /\ builds' = [builds EXCEPT !["word_count_chart"] = @ + 1]
            /\ pc' = "layout_user_engagement_chart"
            /\ UNCHANGED <<crash, exit_status>>
    /\ UNCHANGED <<present, word_count_df, daily_sentiment_df, user_stats_df,
                   cleaned_tweets_df, emotions_sample_df, reads, stdout, card,
                   user_chart, sentiment_chart, app_layout, started, responses,
                   served, caught>>

LayoutWordCountChart ==
    /\ pc = "layout_word_count_chart"
    /\ word_chart' = create_word_count_chart(word_count_df)
    /\ builds' = [builds EXCEPT !["word_count_chart"] = @ + 1]
    /\ pc' = "layout_user_engagement_chart"
    /\ UNCHANGED <<present, word_count_df, daily_sentiment_df, user_stats_df,
                   cleaned_tweets_df, emotions_sample_df, reads, stdout, card,
                   user_chart, sentiment_chart, app_layout, started, responses,
                   served, crash, caught, exit_status>>

LayoutUserEngagementChart ==
    /\ pc = "layout_user_engagement_chart"
    /\ user_chart' = create_user_engagement_chart(user_stats_df)
    /\ builds' = [builds EXCEPT !["user_engagement_chart"] = @ + 1]
    /\ pc' = "layout_sentiment_line_chart"
    /\ UNCHANGED <<present, word_count_df, daily_sentiment_df, user_stats_df,
                   cleaned_tweets_df, emotions_sample_df, reads, stdout, card,
                   word_chart, sentiment_chart, app_layout, started, responses,
                   served, crash, caught, exit_status>>

LayoutSentimentLineChart ==
    /\ pc = "layout_sentiment_line_chart"
    /\ sentiment_chart' = create_sentiment_line_chart(daily_sentiment_df)
    /\ builds' = [builds EXCEPT !["sentiment_line_chart"] = @ + 1]
    /\ pc' = "assign_layout"
    /\ UNCHANGED <<present, word_count_df, daily_sentiment_df, user_stats_df,
                   cleaned_tweets_df, emotions_sample_df, reads, stdout, card,
                   word_chart, user_chart, app_layout, started, responses,
                   served, crash, caught, exit_status>>

\* app.layout = html.Div(...): the tree built from the four parts
AssignLayout ==
    /\ pc = "assign_layout"
    /\ app_layout' = << [summary |-> card[1], words |-> word_chart,
                         users |-> user_chart, sentiment |-> sentiment_chart] >>
    /\ pc' = "main"
    /\ UNCHANGED <<present, word_count_df, daily_sentiment_df, user_stats_df,
                   cleaned_tweets_df, emotions_sample_df, reads, builds, stdout,
                   card, word_chart, user_chart, sentiment_chart, started,
                   responses, served, crash, caught, exit_status>>

\* if __name__ == '__main__': print, then app.run(debug=True)
RunApp ==
    /\ pc = "main"
    /\ stdout' = Append(stdout, [line |-> "Starting Dash app", file |-> "none"])
    /\ started' = TRUE
    /\ pc' = "serving"
    /\ UNCHANGED <<present, word_count_df, daily_sentiment_df, user_stats_df,
                   cleaned_tweets_df, emotions_sample_df, reads, builds, card,
                   word_chart, user_chart, sentiment_chart, app_layout,
                   responses, served, crash, caught, exit_status>>

\* a request handler that builds the word-count chart again for each request
ServeRequest_rebuild ==
    /\ pc = "serving"
    /\ served < MaxRequests
    /\ word_chart' = create_word_count_chart(word_count_df)
    /\ builds' = [builds EXCEPT !["word_count_chart"] = @ + 1]
    /\ responses' = responses \cup {[app_layout[1] EXCEPT !.words = word_chart']}
    /\ served' = served + 1
    /\ UNCHANGED <<pc, present, word_count_df, daily_sentiment_df, user_stats_df,
                   cleaned_tweets_df, emotions_sample_df, reads, stdout, card,
                   user_chart, sentiment_chart, app_layout, started, crash,
                   caught, exit_status>>

\* a request for the page: the server hands out app.layout, a tree that was
\* built before app.run, and calls none of the script's functions
ServeRequest ==
    /\ pc = "serving"
    /\ served < MaxRequests
    /\ responses' = responses \cup {app_layout[1]}
    /\ served' = served + 1
    /\ UNCHANGED <<pc, present, word_count_df, daily_sentiment_df, user_stats_df,
                   cleaned_tweets_df, emotions_sample_df, reads, builds, stdout,
                   card, word_chart, user_chart, sentiment_chart, app_layout,
                   started, crash, caught, exit_status>>

\* the termination signal: app.run returns and the script ends, status 0
Shutdown ==
    /\ pc = "serving"
    /\ pc' = "exited"
    /\ exit_status' = {0}
    /\ UNCHANGED <<present, word_count_df, daily_sentiment_df, user_stats_df,
                   cleaned_tweets_df, emotions_sample_df, reads, builds, stdout,
                   card, word_chart, user_chart, sentiment_chart, app_layout,
                   started, responses, served, crash, caught>>

Next ==
    \/ PrintLoading
    \/ ReadWordCount
    \/ ReadDailySentiment
    \/ ReadUserStats
    \/ ReadCleanedTweets
    \/ ReadEmotionsSample
    \/ ParseDateColumn
    \/ HandleFileNotFound
    \/ DashInit
    \/ LayoutSummaryCard
    \/ LayoutWordCountChart
    \/ LayoutUserEngagementChart
    \/ LayoutSentimentLineChart
    \/ AssignLayout
    \/ RunApp
    \/ ServeRequest
    \/ Shutdown

Spec == Init /\ [][Next]_vars

-----------------------------------------------------------------------------
(* Properties *)

ReadOrder == <<WORD_FILE, SENT_FILE, USER_FILE, TWEETS_FILE>>

Named(file) == \E i \in 1..Len(stdout) : stdout[i].file = file

FirstMissing ==
    ReadOrder[CHOOSE i \in 1..Len(ReadOrder) :
                /\ ReadOrder[i] \notin present
                /\ \A j \in 1..(i - 1) : ReadOrder[j] \in present]

BeforeApp == {"start", "read_word_count", "read_daily_sentiment", "read_user_stats",
              "read_cleaned_tweets", "read_emotions_sample", "to_datetime",
              "except", "exited"}

NothingBuilt ==
    /\ app_layout = <<>>
    /\ ~started
    /\ \A b \in Builders : builds[b] = 0

\* C1 as stated: whichever required file is missing, the run that ended has
\* printed a diagnostic naming that file, and built and started nothing.
C1_EveryMissingFileNamed ==
    \A f \in RequiredFiles :
        (f \notin present /\ pc = "exited") => (Named(f) /\ NothingBuilt)

\* C1 amended: when some required file is missing, the run never gets past
\* the loading block, builds no layout and starts no server, always has a
\* next step until it has exited, and when it has exited the diagnostic
\* names the first missing file in read order, and only that file.
C1_FirstMissingFileNamed ==
    present # RequiredFiles =>
        /\ pc \in BeforeApp
        /\ NothingBuilt
        /\ pc # "exited" => ENABLED Next
        /\ pc = "exited" =>
              \A f \in RequiredFiles : Named(f) <=> f = FirstMissing

C1_Witness ==
    /\ pc = "exited"
    /\ WORD_FILE \in present /\ SENT_FILE \in present
    /\ USER_FILE \notin present /\ TWEETS_FILE \notin present
    /\ Named(USER_FILE)
    /\ ~Named(TWEETS_FILE)

Ascending(bars, by) ==
    \A i, j \in 1..Len(bars) : i < j => bars[i][by] <= bars[j][by]

\* C2: a word-count table of at least 20 rows gives a chart of exactly 20
\* bars whose total_count does not decrease from the bottom bar to the top.
C2_TwentyBarsAscending ==
    (builds["word_count_chart"] > 0 /\ Len(word_count_df) >= 20) =>
        /\ Len(word_chart) = 20
        /\ Ascending(word_chart, "total_count")

C2_Witness ==
    /\ builds["word_count_chart"] > 0
    /\ Len(word_count_df) > 20
    /\ ~Ascending(word_count_df, "total_count")
    /\ word_chart[1].total_count < word_chart[20].total_count

ShownWords == {word_chart[i].word : i \in 1..Len(word_chart)}

C5_PointsAscendingByDate ==
    builds["sentiment_line_chart"] > 0 =>
        /\ Len(sentiment_chart) = Len(daily_sentiment_df)
        /\ \A i, j \in 1..Len(sentiment_chart) :
              i < j => sentiment_chart[i].x < sentiment_chart[j].x

RECURSIVE LikesOf(_)
LikesOf(rows) == IF rows = <<>> THEN 0 ELSE rows[1].total_likes + LikesOf(Tail(rows))

Abs(x) == IF x < 0 THEN -x ELSE x

\* C6: with a non-empty cleaned-tweets table the card shows the row count of
\* that table, the row count of the user-stats table, and an average that is
\* a multiple of 0.01 nearest to (sum of total_likes over all rows) / (tweet
\* row count): no other multiple of 0.01 is closer.
C6_AverageLikesRounded ==
    (builds["summary_card"] > 0 /\ cleaned_tweets_df > 0) =>
        /\ card[1].total_tweets = cleaned_tweets_df
        /\ card[1].unique_users = Len(user_stats_df)
        /\ card[1].avg_likes.kind = "finite"
        /\ 2 * Abs(100 * LikesOf(user_stats_df)
                   - card[1].avg_likes.hundredths * cleaned_tweets_df)
              <= cleaned_tweets_df

C6_Witness ==
    /\ builds["summary_card"] > 0
    /\ cleaned_tweets_df > 0
    /\ Len(user_stats_df) > 10
    /\ card[1].avg_likes.hundredths > 0
    /\ card[1].avg_likes.hundredths * cleaned_tweets_df # 100 * LikesOf(user_stats_df)

\* C7 as stated: with a cleaned-tweets table of zero rows the summary card is
\* never computed, the layout is never completed and the server never starts.
C7_ZeroTweetsCrash ==
    (reads[TWEETS_FILE] > 0 /\ cleaned_tweets_df = 0) =>
        /\ builds["summary_card"] = 0
        /\ app_layout = <<>>
        /\ ~started

\* C7 amended: with a cleaned-tweets table of zero rows and a user-stats
\* table of at least one row, the summary card does not fail: its average is
\* inf when the likes sum is positive and nan when it is zero, and the run
\* does not end before the server was started.  A ZeroDivisionError ends the
\* run only when both tables have zero rows.
C7_ZeroTweetsNoCrash ==
    /\ (reads[TWEETS_FILE] > 0 /\ cleaned_tweets_df = 0 /\ Len(user_stats_df) > 0) =>
          /\ crash = "none"
          /\ builds["summary_card"] > 0 =>
                card[1].avg_likes.kind
                   = (IF LikesOf(user_stats_df) > 0 THEN "inf" ELSE "nan")
          /\ pc = "exited" => started
    /\ crash = "ZeroDivisionError" =>
          /\ cleaned_tweets_df = 0 /\ Len(user_stats_df) = 0
          /\ NothingBuilt

C7_Witness ==
    /\ started
    /\ cleaned_tweets_df = 0
    /\ card[1].avg_likes.kind = "inf"
    /\ served > 0

\* C8 as stated: a run that ended on a missing file has a non-zero exit
\* status, and exit status 0 belongs only to runs whose server was started.
C8_MissingFileExitsNonZero ==
    /\ (pc = "exited" /\ caught # <<>>) => 0 \notin exit_status
    /\ 0 \in exit_status => started

ExpectedReads ==
    [f \in RequiredFiles |-> IF f = TWEETS_FILE THEN 2 ELSE 1]

C10_EmptyTableNoDashboard ==
    \/ /\ reads[WORD_FILE] > 0 /\ Len(word_count_df) = 0
    \/ /\ reads[USER_FILE] > 0 /\ Len(user_stats_df) = 0
    => ~started

\* C10 amended: a chart builder given a table shorter than its cut, an empty
\* one included, takes the rows there are: the chart has as many bars as the
\* table has rows, none for an empty table, and no failure comes from a
\* chart builder, so a run that ends without a started server ended on a
\* missing file or on the summary card's division.
C10_EmptyTableEmptyChart ==
    /\ builds["word_count_chart"] > 0 =>
          Len(word_chart) = Min(Len(word_count_df), 20)
    /\ builds["user_engagement_chart"] > 0 =>
          Len(user_chart) = Min(Len(user_stats_df), 10)
    /\ (pc = "exited" /\ ~started) =>
          (caught # <<>> \/ crash = "ZeroDivisionError")

C10_Witness ==
    /\ started
    /\ Len(word_count_df) = 0 /\ word_chart = <<>>
    /\ Len(user_stats_df) = 0 /\ user_chart = <<>>
    /\ served > 0

====
